---- MODULE Spec2Model ----
(***************************************************************************)
(* Chat application: ChatModel (localStorage persistence), ChatController  *)
(* (send / edit / delete / clear / import / export, provider selection)    *)
(* and the AI services behind the AIService interface, with the engine     *)
(* behind the local Eliza service.                                         *)
(*                                                                         *)
(* Texts are sequences of one-character strings, so that String.trim() is  *)
(* computed and not assumed.  Message ids (crypto.randomUUID) and          *)
(* timestamps (Date.now) are drawn from a counter: fresh and positive.     *)
(* localStorage.setItem is taken to succeed (quota not exhausted).         *)
(* ChatView.showTypingIndicator / hideTypingIndicator are methods of the   *)
(* view revision the controller is written against; they set a flag and    *)
(* return.                                                                 *)
(*                                                                         *)
(* Observer callbacks other than the controller's return or throw and do   *)
(* nothing else.  Error messages of OpenAIService are sequences of words;  *)
(* one request of OpenAIService is followed at a time.                     *)
(***************************************************************************)
EXTENDS Integers, Sequences, FiniteSets, TLC

\* ---------------------------------------------------------------- bounds
MaxIds == 3          \* messages created by ChatModel.create in one run
MaxPending == 2      \* getResponse calls in flight at the same time
MaxSubscribes == 2   \* subscribe calls of callers other than the controller
MaxModelCalls == 3   \* calls of the ChatModel interface by those callers

\* ---------------------------------------------------------------- texts
SP == " "

RECURSIVE TrimLeft(_)
TrimLeft(s) == IF s # <<>> /\ Head(s) = SP THEN TrimLeft(Tail(s)) ELSE s

RECURSIVE TrimRight(_)
TrimRight(s) ==
  IF s # <<>> /\ s[Len(s)] = SP THEN TrimRight(SubSeq(s, 1, Len(s) - 1)) ELSE s

\* String.prototype.trim
Trim(s) == TrimRight(TrimLeft(s))

\* the check `!text || text.trim().length === 0` of create and update
IsBlank(s) == s = <<>> \/ Len(Trim(s)) = 0

\* what the user can type into the message input
RawTexts == { <<>>, <<SP>>, <<SP, "a", SP>> }
\* what the user can type into the edit prompt
EditTexts == { <<SP>>, <<"b", SP>> }

\* the chat text built in the catch block of handleSendMessage
SendErrorMsg == <<"!", "s">>
\* the chat text built in the inner catch block of handleEditMessage
EditErrorMsg == <<"!", "e">>

\* getBotResponse(message) of the Eliza engine: it returns a response string,
\* or fails with a ConfigurationError on malformed rule data
EngineResults == { "returns", "throws" }
ElizaResponses == { <<"r">> }
\* texts the OpenAI API puts into choices[0].message.content
OpenAIContents == { <<"r", SP>>, <<SP>> }

VARIABLES
  storage,        \* localStorage['eliza-chat-messages']
  lsGemini,       \* localStorage['gemini_api_key']
  lsOpenai,       \* localStorage['openai_api_key']
  nextId,         \* source of crypto.randomUUID() and Date.now()
  rendered,       \* what ChatView.renderMessages drew last
  inputDisabled,  \* messageInput.disabled
  typing,         \* typing indicator shown
  currentService, \* ChatController.currentService
  geminiApiKey,   \* ChatController.geminiApiKey
  openaiApiKey,   \* ChatController.openaiApiKey
  providerSelect, \* value of the provider dropdown
  apiKeyShown,    \* API key input visible
  pending,        \* getResponse calls whose handler is suspended at await
  last,           \* the operation of the last step and what it reported
  clearMark,      \* Clear All was confirmed and nothing was submitted since
  editSnap        \* the last successful edit, NoEdit once another operation starts

vars == << storage, lsGemini, lsOpenai, nextId, rendered, inputDisabled,
           typing, currentService, geminiApiKey, openaiApiKey,
           providerSelect, apiKeyShown, pending, last, clearMark, editSnap >>

\* ------------------------------------------------------------ ChatModel
NoData == [kind |-> "null", items |-> <<>>]

\* JSON.stringify(messages) written by localStorage.setItem
save(messages) == [kind |-> "array", items |-> messages]

\* localStorage.getItem + JSON.parse; anything but an array reads as []
getAll(st) == IF st.kind = "array" THEN st.items ELSE <<>>

\* the message object built by create; text is stored trimmed
newMessage(text, isUser, id, now) ==
  [id |-> id, text |-> Trim(text), isUser |-> isUser, timestamp |-> now,
   edited |-> FALSE, editedAt |-> 0]

\* ChatModel.create: throws on blank text, otherwise appends, saves, notifies
create(st, text, isUser, id, now) ==
  IF IsBlank(text)
    THEN [st |-> st, ret |-> "throwEmpty", notified |-> 0]
    ELSE [st |-> save(Append(getAll(st), newMessage(text, isUser, id, now))),
          ret |-> "ok", notified |-> 1]

\* Array.prototype.findIndex(m => m.id === id), 0 when there is none
RECURSIVE findIndexFrom(_, _, _)
findIndexFrom(msgs, id, i) ==
  IF i > Len(msgs) THEN 0
  ELSE IF msgs[i].id = id THEN i
  ELSE findIndexFrom(msgs, id, i + 1)

findIndex(msgs, id) == findIndexFrom(msgs, id, 1)

\* update without the check that the message is a user message
update_anyAuthor(st, id, newText, now) ==
  LET messages == getAll(st)
      i == findIndex(messages, id)
  IN  IF IsBlank(newText) THEN [st |-> st, ret |-> "throwEmpty", notified |-> 0]
      ELSE IF i = 0 THEN [st |-> st, ret |-> "null", notified |-> 0]
      ELSE [st |-> save([messages EXCEPT ![i] =
                           [@ EXCEPT !.text = Trim(newText), !.edited = TRUE,
                                     !.editedAt = now]]),
            ret |-> "ok", notified |-> 1]

\* ChatModel.update: the first message with that id gets the trimmed text
update(st, id, newText, now) ==
  LET messages == getAll(st)
      i == findIndex(messages, id)
  IN  IF IsBlank(newText) THEN [st |-> st, ret |-> "throwEmpty", notified |-> 0]
      ELSE IF i = 0 THEN [st |-> st, ret |-> "null", notified |-> 0]
      ELSE IF ~messages[i].isUser THEN [st |-> st, ret |-> "throwBot", notified |-> 0]
      ELSE [st |-> save([messages EXCEPT ![i] =
                           [@ EXCEPT !.text = Trim(newText), !.edited = TRUE,
                                     !.editedAt = now]]),
            ret |-> "ok", notified |-> 1]

\* Array.prototype.filter(msg => msg.id !== id)
RECURSIVE filterOut(_, _)
filterOut(msgs, id) ==
  IF msgs = <<>> THEN <<>>
  ELSE IF Head(msgs).id = id THEN filterOut(Tail(msgs), id)
  ELSE <<Head(msgs)>> \o filterOut(Tail(msgs), id)

\* ChatModel.delete without the length comparison: always writes
delete_noCheck(st, id) ==
  [st |-> save(filterOut(getAll(st), id)), ret |-> "true", notified |-> 1]

\* ChatModel.delete: false and no write when nothing was filtered out
delete(st, id) ==
  LET messages == getAll(st)
      filtered == filterOut(messages, id)
  IN  IF Len(filtered) = Len(messages)
        THEN [st |-> st, ret |-> "false", notified |-> 0]
        ELSE [st |-> save(filtered), ret |-> "true", notified |-> 1]

\* ChatModel.clear
clear(st) == [st |-> save(<<>>), ret |-> "true", notified |-> 1]

\* ChatModel.exportToJSON: the document JSON.stringify produces
exportToJSON(st, now) ==
  [kind |-> "object", messagesIsArray |-> TRUE, exported |-> now,
   messageCount |-> Len(getAll(st)), messages |-> getAll(st)]

\* the per-message test of importFromJSON, asking for msg.edited as well
isValidMessage_edited(msg) ==
  msg.id # 0 /\ msg.text # <<>> /\ msg.isUser \in BOOLEAN /\ msg.timestamp # 0
    /\ msg.edited

\* the per-message test of importFromJSON
isValidMessage(msg) ==
  msg.id # 0 /\ msg.text # <<>> /\ msg.isUser \in BOOLEAN /\ msg.timestamp # 0

RECURSIVE filterValid(_)
filterValid(msgs) ==
  IF msgs = <<>> THEN <<>>
  ELSE IF isValidMessage(Head(msgs)) THEN <<Head(msgs)>> \o filterValid(Tail(msgs))
  ELSE filterValid(Tail(msgs))

\* ChatModel.importFromJSON with _save moved in front of the validation
importFromJSON_saveFirst(st, doc) ==
  IF doc.kind # "object" THEN [st |-> st, ret |-> "throwParse", notified |-> 0]
  ELSE IF ~doc.messagesIsArray
    THEN [st |-> save(<<>>), ret |-> "throwFormat", notified |-> 0]
  ELSE [st |-> save(filterValid(doc.messages)), ret |-> "true", notified |-> 1]

\* ChatModel.importFromJSON: throws on unparsable text or a missing messages
\* array, otherwise replaces the history by the valid messages of the file
importFromJSON(st, doc) ==
  IF doc.kind # "object" THEN [st |-> st, ret |-> "throwParse", notified |-> 0]
  ELSE IF ~doc.messagesIsArray THEN [st |-> st, ret |-> "throwFormat", notified |-> 0]
  ELSE [st |-> save(filterValid(doc.messages)), ret |-> "true", notified |-> 1]

\* ChatModel._notifyObservers with the controller's one observer
\* (view.renderMessages): the list drawn after an operation result r
notifyObservers(r, shown) == IF r.notified > 0 THEN getAll(r.st) ELSE shown

\* ------------------------------------------------------------- services
NoKey == [prefix |-> "", len |-> 0]

ElizaService == [kind |-> "eliza", key |-> NoKey]
GeminiService(key) == [kind |-> "gemini", key |-> key]
OpenAIService(key) == [kind |-> "openai", key |-> key]

\* GeminiService.getResponse never reaches the network: _buildContents calls
\* contents.psu, a TypeError, so the returned promise is already rejected and
\* the awaiting handler resumes before any other event is handled.
\* ElizaService and OpenAIService settle later (timer, fetch).
settlesAtOnce(svc) == svc.kind = "gemini"
RejectedAtOnce == [t |-> "reject", v |-> <<>>]

\* a getResponse call the handler op is awaiting
newCall(op, svc, text) ==
  [op |-> op, svc |-> svc.kind, state |-> "waiting"]

\* what OpenAIService.getResponse can settle with: _extractText returns
\* content.trim() for a non-empty content, every failure is an Error
OpenAIOutcomes ==
  { [t |-> "resolve", v |-> Trim(c)] : c \in OpenAIContents }
    \cup { [t |-> "reject", v |-> <<>>] }

\* what ElizaService.getResponse resolves with when getBotResponse returns
ElizaOutcomes == { [t |-> "resolve", v |-> r] : r \in ElizaResponses }

outcomes(call) == IF call.svc = "eliza" THEN ElizaOutcomes ELSE OpenAIOutcomes

\* ------------------------------------------------------- Eliza engine
\* The engine behind getBotResponse: rule store, normalizer, keyword
\* selector, decomposition matcher, pronoun transformer, reassembly
\* generator, memory queue and fallback rotation.  Texts of the engine are
\* sequences of words.

\* the rule table the engine is loaded with: one rule per keyword; a
\* pattern is a sequence of literal words and wildcards "*", a template a
\* sequence of literal words and placeholders "$n" for capture n
Rules ==
  << [ keyword |-> "sad", rank |-> 1,
       decompositions |->
         << [ pattern |-> << "i", "am", "sad" >>,
              reassemblies |-> << << "sorry" >>, << "why", "sad" >>,
                                  << "how", "long" >> >>,
              memoryFlag |-> FALSE, memoryTemplates |-> << >> ],
            [ pattern |-> << "*", "sad", "*" >>,
              reassemblies |-> << << "sad", "$1" >>, << "who", "$0" >> >>,
              memoryFlag |-> FALSE, memoryTemplates |-> << >> ] >> ],
     [ keyword |-> "my", rank |-> 2,
       decompositions |->
         << [ pattern |-> << "*", "my", "*" >>,
              reassemblies |-> << << "your", "$1" >>,
                                  << "why", "your", "$1" >> >>,
              memoryFlag |-> TRUE,
              memoryTemplates |-> << << "earlier", "your", "$1" >> >> ] >> ],
     [ keyword |-> "dream", rank |-> 2,
       decompositions |->
         << [ pattern |-> << "*" >>,
              reassemblies |-> << << "what", "dream" >>, << "really" >> >>,
              memoryFlag |-> FALSE, memoryTemplates |-> << >> ] >> ] >>

\* surface words mapped onto a rule's keyword before lookup
SynonymGroups == { [ canonicalKeyword |-> "sad", members |-> { "unhappy" } ] }

\* fallback-response lists a script may be loaded with
FallbackLists ==
  { << << "go", "on" >>, << "i", "see" >> >>,
    << << "go", "on" >>, << "i", "see" >>, << "hmm" >> >>,
    << << "go", "on" >>, << "go", "on" >>, << "i", "see" >> >> }

\* the fallback list of the script the application ships
DefaultFallbacks == << << "go", "on" >>, << "i", "see" >> >>

\* the cap of the memory queue ("a handful of entries")
MemoryCap == 2

\* what a user may type, as raw words and punctuation
Utterances ==
  { << "I", "am", "sad" >>, << "Im", "sad" >>, << "my", "dog", "." >>,
    << "my", "sad", "dream" >>,
    << "sad", "dream" >>, << "unhappy", "me" >>, << "hello" >>, << >> }

\* ---- normalizer
Punctuation == { ".", "!", "?" }

\* case folding of one word
Lower(w) ==
  CASE w = "I" -> "i"
    [] w = "Im" -> "im"
    [] OTHER -> w

\* the case-folded input with punctuation stripped
RECURSIVE Fold(_)
Fold(raw) ==
  IF raw = << >> THEN << >>
  ELSE LET w == Lower(Head(raw))
       IN  (IF w \in Punctuation THEN << >> ELSE << w >>) \o Fold(Tail(raw))

\* the fixed contraction table
Contraction(w) ==
  CASE w = "im" -> << "i", "am" >>
    [] w = "dont" -> << "do", "not" >>
    [] OTHER -> << w >>

RECURSIVE Expand(_)
Expand(toks) ==
  IF toks = << >> THEN << >> ELSE Contraction(Head(toks)) \o Expand(Tail(toks))

\* Normalizer: raw text to the normalized token sequence
Normalize(raw) == Expand(Fold(raw))

\* ---- keyword selector
\* a surface word resolved through its synonym group
Canonical(w) ==
  IF \E g \in SynonymGroups : w \in g.members
    THEN (CHOOSE g \in SynonymGroups : w \in g.members).canonicalKeyword
    ELSE w

\* the index of the rule of a keyword in the rule store, 0 when there is none
RuleIndex(w) ==
  IF \E r \in 1..Len(Rules) : Rules[r].keyword = Canonical(w)
    THEN CHOOSE r \in 1..Len(Rules) : Rules[r].keyword = Canonical(w)
    ELSE 0

\* the scan of the selector that prefers the later of two candidates of
\* equal rank
RECURSIVE Scan_lastWins(_, _)
Scan_lastWins(tokens, best) ==
  IF tokens = << >> THEN best
  ELSE LET r == RuleIndex(Head(tokens))
       IN  IF r # 0 /\ (best = 0 \/ Rules[r].rank >= Rules[best].rank)
             THEN Scan_lastWins(Tail(tokens), r)
             ELSE Scan_lastWins(Tail(tokens), best)

\* the scan of the selector: a later candidate replaces the best so far only
\* with a strictly higher rank
RECURSIVE Scan(_, _)
Scan(tokens, best) ==
  IF tokens = << >> THEN best
  ELSE LET r == RuleIndex(Head(tokens))
       IN  IF r # 0 /\ (best = 0 \/ Rules[r].rank > Rules[best].rank)
             THEN Scan(Tail(tokens), r)
             ELSE Scan(Tail(tokens), best)

\* Keyword Selector: the selected rule, 0 for no-match
SelectKeyword(tokens) == Scan(tokens, 0)

\* ---- decomposition matcher
NoMatch == [ ok |-> FALSE, caps |-> << >> ]

RECURSIVE MatchPattern(_, _)
RECURSIVE CaptureLongest(_, _, _)
\* a wildcard captures the first n words, the longest span first
CaptureLongest(rest, toks, n) ==
  LET m == MatchPattern(rest, SubSeq(toks, n + 1, Len(toks)))
  IN  IF m.ok THEN [ ok |-> TRUE, caps |-> << SubSeq(toks, 1, n) >> \o m.caps ]
      ELSE IF n = 0 THEN NoMatch
      ELSE CaptureLongest(rest, toks, n - 1)

\* a pattern against the words of the input
MatchPattern(pat, toks) ==
  IF pat = << >> THEN [ ok |-> toks = << >>, caps |-> << >> ]
  ELSE IF Head(pat) = "*" THEN CaptureLongest(Tail(pat), toks, Len(toks))
  ELSE IF toks # << >> /\ Head(toks) = Head(pat)
    THEN MatchPattern(Tail(pat), Tail(toks))
  ELSE NoMatch

\* the first pattern of the rule that matches, from pattern p on; 0 if none
RECURSIVE FirstMatching(_, _, _)
FirstMatching(rule, toks, p) ==
  IF p > Len(rule.decompositions) THEN 0
  ELSE IF MatchPattern(rule.decompositions[p].pattern, toks).ok THEN p
  ELSE FirstMatching(rule, toks, p + 1)

\* ---- pronoun transformer
Reflect(w) ==
  CASE w = "i" -> "you"
    [] w = "me" -> "you"
    [] w = "you" -> "i"
    [] w = "my" -> "your"
    [] w = "your" -> "my"
    [] w = "mine" -> "yours"
    [] w = "yours" -> "mine"
    [] w = "myself" -> "yourself"
    [] w = "yourself" -> "myself"
    [] w = "am" -> "are"
    [] w = "are" -> "am"
    [] OTHER -> w

RECURSIVE ReflectAll(_)
ReflectAll(frag) ==
  IF frag = << >> THEN << >> ELSE << Reflect(Head(frag)) >> \o ReflectAll(Tail(frag))

RECURSIVE ReflectCaptures(_)
ReflectCaptures(caps) ==
  IF caps = << >> THEN << >>
  ELSE << ReflectAll(Head(caps)) >> \o ReflectCaptures(Tail(caps))

\* ---- reassembly generator
\* the capture a template word refers to, -1 for a literal word
PlaceholderIndex(w) ==
  CASE w = "$0" -> 0
    [] w = "$1" -> 1
    [] w = "$2" -> 2
    [] OTHER -> -1

\* a template filled with the transformed captures; ok is FALSE when a
\* placeholder has no capture (ConfigurationError)
RECURSIVE Fill(_, _)
Fill(template, caps) ==
  IF template = << >> THEN [ ok |-> TRUE, text |-> << >> ]
  ELSE LET i == PlaceholderIndex(Head(template))
           rest == Fill(Tail(template), caps)
       IN  IF i = -1
             THEN [ ok |-> rest.ok, text |-> << Head(template) >> \o rest.text ]
           ELSE IF i + 1 > Len(caps) THEN [ ok |-> FALSE, text |-> << >> ]
           ELSE [ ok |-> rest.ok, text |-> caps[i + 1] \o rest.text ]

\* ---- session state
\* the (rule, pattern) pairs of the rule store
Pairs ==
  UNION { { << r, p >> : p \in 1..Len(Rules[r].decompositions) } :
          r \in 1..Len(Rules) }

\* createSession: a fresh, empty session
createSession ==
  [ usageCounters |-> [ pr \in Pairs |-> 0 ],
    memoryQueue |-> << >>,
    fallbackCounter |-> 0 ]

\* a usage counter store where every use advances the counters of all pairs
advance_shared(counters, pair, M) ==
  [ pr \in Pairs |-> (counters[pr] + 1) % M ]

\* the usage counter of the pair after a use: incremented, wrapped modulo
\* the length of the template list
advance(counters, pair, M) ==
  [ counters EXCEPT ![pair] = (@ + 1) % M ]

\* push onto the bounded memory queue: a push while full evicts the oldest
Remember(queue, statement) ==
  Append(IF Len(queue) >= MemoryCap THEN Tail(queue) ELSE queue, statement)

\* a recall that hands out the newest statement of the queue
recall_newest(queue) ==
  [ response |-> queue[Len(queue)], queue |-> SubSeq(queue, 1, Len(queue) - 1) ]

\* pop the oldest statement of the memory queue
recall(queue) == [ response |-> Head(queue), queue |-> Tail(queue) ]

\* a fallback rotation that does not store the incremented counter
fallback_stuck(counter, fb) ==
  [ response |-> fb[(counter % Len(fb)) + 1], counter |-> counter ]

\* fallbacks[counter % length], and the counter incremented
fallback(counter, fb) ==
  [ response |-> fb[(counter % Len(fb)) + 1],
    counter |-> (counter + 1) % Len(fb) ]

\* a turn without a match: memory recall, then fallback rotation
unmatched(session, fb) ==
  IF session.memoryQueue # << >>
    THEN LET m == recall(session.memoryQueue)
         IN  [ kind |-> "memory", selected |-> 0, rule |-> 0, pattern |-> 0, template |-> 0,
               response |-> m.response,
               session |-> [ session EXCEPT !.memoryQueue = m.queue ] ]
    ELSE LET f == fallback(session.fallbackCounter, fb)
         IN  [ kind |-> "fallback", selected |-> 0, rule |-> 0, pattern |-> 0, template |-> 0,
               response |-> f.response,
               session |-> [ session EXCEPT !.fallbackCounter = f.counter ] ]

\* a turn whose keyword rule r matched with its pattern p
matched(r, p, folded, session) ==
  LET d == Rules[r].decompositions[p]
      caps == ReflectCaptures(MatchPattern(d.pattern, folded).caps)
      M == Len(d.reassemblies)
      t == session.usageCounters[<< r, p >>] % M
      filled == Fill(d.reassemblies[t + 1], caps)
      statement == IF d.memoryFlag
                     THEN Fill(d.memoryTemplates[1], caps)
                     ELSE [ ok |-> TRUE, text |-> << >> ]
  IN  IF ~filled.ok \/ ~statement.ok
        THEN [ kind |-> "ConfigurationError", selected |-> r, rule |-> r, pattern |-> p,
               template |-> t, response |-> << >>, session |-> session ]
        ELSE [ kind |-> "match", selected |-> r, rule |-> r, pattern |-> p, template |-> t,
               response |-> filled.text,
               session |->
                 [ session EXCEPT
                     !.usageCounters = advance(@, << r, p >>, M),
                     !.memoryQueue = IF d.memoryFlag
                                       THEN Remember(@, statement.text)
                                       ELSE @ ] ]

\* respond(inputText, session): the response and the session after the turn
respond(inputText, session, fb) ==
  LET r == SelectKeyword(Normalize(inputText))
      folded == Fold(inputText)
      p == IF r = 0 THEN 0 ELSE FirstMatching(Rules[r], folded, 1)
  IN  IF p = 0
        THEN [ unmatched(session, fb) EXCEPT !.selected = r ]
        ELSE matched(r, p, folded, session)

\* ---- the engine as the application runs it
MaxTurns == 5        \* turns served by the engine in one run
MaxServices == 2     \* ElizaService objects constructed on one page

VARIABLES
  fallbacks,     \* the fallback list of the loaded script
  engine,        \* the session state the engine module holds
  own,           \* the session createSession gave the serving ElizaService
  instance,      \* number of the ElizaService object that is serving
  turns,         \* turns served so far
  uses,          \* per (rule, pattern): matches since the session began
  fbUses,        \* fallback turns since the session began
  prevFallback,  \* response of the previous fallback turn
  elast          \* the last step of the engine: what it was and returned

evars == << fallbacks, engine, own, instance, turns, uses, fbUses,
            prevFallback, elast >>

NoTurn(op) ==
  [ op |-> op, kind |-> "none", input |-> << >>, selected |-> 0, rule |-> 0,
    pattern |-> 0, template |-> 0, response |-> << >>, expected |-> << >> ]

\* eliza.js is loaded with the script whose fallback list is fb
InitEngine(fb) ==
  /\ fallbacks = fb
  /\ engine = createSession
  /\ own = createSession
  /\ instance = 1
  /\ turns = 0
  /\ uses = [ pr \in Pairs |-> 0 ]
  /\ fbUses = 0
  /\ prevFallback = << >>
  /\ elast = NoTurn("init")

\* getBotResponse(message), as ElizaService.getResponse calls it: with the
\* message only, so the session is the one the engine module holds
getBotResponse(message) == respond(message, engine, fallbacks)

\* ------------------------------------------- observers and requests
VARIABLES
  observers,     \* ChatModel.observers: the callbacks, in subscription order
  unsubs,        \* the unsubscribe functions subscribe returned to callers
  modelCalls,    \* calls of the ChatModel interface by these callers so far
  olast          \* the last call of the ChatModel interface and the observer
                 \* calls it made

ovars == << observers, unsubs, modelCalls, olast >>

VARIABLES
  request,       \* the message list _buildMessages built for the last call
  sent,          \* the arguments of that getResponse call
  retryCount,    \* the parameter retryCount of the running _makeRequest
  fetches,       \* invocations of fetch for that call
  phase,         \* where OpenAIService.getResponse stands
  fetched        \* what the last fetch settled with

rvars == << request, sent, retryCount, fetches, phase, fetched >>

\* the callback the controller subscribes in _initialize; it drops the
\* unsubscribe function subscribe returns
RenderMessages == "renderMessages"

NoCalls == [calls |-> << >>, threw |-> FALSE]

\* the controller has subscribed its callback
InitObservers ==
  /\ observers = << RenderMessages >>
  /\ unsubs = << >>
  /\ modelCalls = 0
  /\ olast = [op |-> "init", ret |-> "ok", calls |-> << >>]

NoFetch == [kind |-> "none"]

\* no getResponse call of an OpenAIService yet
InitRequest ==
  /\ request = << >>
  /\ sent = [message |-> << >>, history |-> << >>, earlier |-> << >>]
  /\ retryCount = 0
  /\ fetches = 0
  /\ phase = "idle"
  /\ fetched = NoFetch

\* ------------------------------------------------------------ controller
NoEdit == [id |-> 0, before |-> <<>>, text |-> <<>>, alone |-> FALSE]

Obs(op, arg, ret, notified) ==
  [op |-> op, arg |-> arg, ret |-> ret, notified |-> notified]

Waiting == { i \in 1..Len(pending) : pending[i].state = "waiting" }

\* ids still needed by the handlers that are suspended at their await
Reserved == Cardinality(Waiting)

Remove(seq, i) == SubSeq(seq, 1, i - 1) \o SubSeq(seq, i + 1, Len(seq))

\* keys saved to localStorage by an earlier session: with a key for each
\* remote provider every service can be selected
SavedGeminiKeys == { [prefix |-> "AIzaSy", len |-> 39] }
SavedOpenAIKeys == { [prefix |-> "sk-", len |-> 51] }

\* the page is loaded with an empty history: constructor, _loadSavedApiKeys,
\* _loadInitialMessages
Init ==
  /\ storage = NoData
  /\ lsGemini \in SavedGeminiKeys
  /\ lsOpenai \in SavedOpenAIKeys
  /\ nextId = 1
  /\ rendered = <<>>
  /\ inputDisabled = FALSE
  /\ typing = FALSE
  /\ currentService = ElizaService
  /\ geminiApiKey = lsGemini
  /\ openaiApiKey = lsOpenai
  /\ providerSelect = "eliza"
  /\ apiKeyShown = FALSE
  /\ pending = <<>>
  /\ last = Obs("init", 0, "ok", 0)
  /\ clearMark = FALSE
  /\ editSnap = NoEdit
  /\ InitEngine(DefaultFallbacks)
  /\ InitObservers
  /\ InitRequest

\* afterAwait without the catch block's create(errorMsg, false)
afterAwait_noCatch(op, o, st, id) ==
  IF o.t = "resolve" /\ ~IsBlank(o.v)
    THEN create(st, o.v, FALSE, id, id)
    ELSE [st |-> st, ret |-> "skipped", notified |-> 0]

\* the code after the await of handleSendMessage / handleEditMessage for a
\* promise settled with outcome o: create(botResponse, false), and the catch
\* block's create(errorMsg, false) when the promise was rejected or create threw
afterAwait(op, o, st, id) ==
  LET errorMsg == IF op = "send" THEN SendErrorMsg ELSE EditErrorMsg
      b == IF o.t = "resolve"
             THEN create(st, o.v, FALSE, id, id)
             ELSE [st |-> st, ret |-> "skipped", notified |-> 0]
  IN  IF b.ret = "ok" THEN b ELSE create(st, errorMsg, FALSE, id, id)

\* ChatController.handleSendMessage up to its await (or to its end when
\* create throws or the service promise is already rejected)
handleSendMessage(text) ==
  LET c == create(storage, text, TRUE, nextId, nextId)
      \* create threw: the catch block's create(errorMsg, false)
      x == create(storage, SendErrorMsg, FALSE, nextId, nextId)
      \* the promise is already rejected: the catch block
      e == afterAwait("send", RejectedAtOnce, c.st, nextId + 1)
  IN  /\ nextId + Reserved + 1 <= MaxIds
      /\ Len(pending) < MaxPending
      /\ clearMark' = FALSE
      /\ editSnap' = NoEdit
      /\ UNCHANGED << lsGemini, lsOpenai, currentService, geminiApiKey,
                      openaiApiKey, providerSelect, apiKeyShown >>
      /\ IF c.ret # "ok"
           THEN /\ storage' = x.st
                /\ rendered' = notifyObservers(x, rendered)
                /\ nextId' = nextId + 1
                /\ typing' = FALSE
                /\ inputDisabled' = FALSE
                /\ pending' = pending
                /\ last' = Obs("send", text, "throwEmpty", x.notified)
         ELSE IF settlesAtOnce(currentService)
           THEN /\ storage' = e.st
                /\ rendered' = notifyObservers(e, rendered)
                /\ nextId' = nextId + 2
                /\ typing' = FALSE
                /\ inputDisabled' = FALSE
                /\ pending' = pending
                /\ last' = Obs("send", text, "rejected", c.notified + e.notified)
         ELSE   /\ storage' = c.st
                /\ rendered' = notifyObservers(c, rendered)
                /\ nextId' = nextId + 1
                /\ typing' = TRUE
                /\ inputDisabled' = TRUE
                /\ pending' = Append(pending, newCall("send", currentService, text))
                /\ last' = Obs("send", text, "awaiting", c.notified)

\* the submit listener of ChatView.bindEvents: trims, forwards non-empty text
\* (nothing can be typed into a disabled input)
submit(raw) ==
  LET text == Trim(raw)
  IN  IF text # <<>>
        THEN ~inputDisabled /\ handleSendMessage(text)
        ELSE /\ last' = Obs("submit", 0, "ignored", 0)
             /\ UNCHANGED << storage, lsGemini, lsOpenai, nextId, rendered,
                             inputDisabled, typing, currentService,
                             geminiApiKey, openaiApiKey, providerSelect,
                             apiKeyShown, pending, clearMark, editSnap >>

\* the forEach of handleEditMessage: model.delete(msg.id) for each message
\* that followed the edited one
RECURSIVE deleteEach(_, _)
deleteEach(st, msgs) ==
  IF msgs = <<>> THEN [st |-> st, ret |-> "done", notified |-> 0]
  ELSE LET r == delete(st, Head(msgs).id)
           rest == deleteEach(r.st, Tail(msgs))
       IN  [st |-> rest.st, ret |-> "done", notified |-> r.notified + rest.notified]

\* ids a handler can be called with: those in the history and an unknown one
UnknownId == 99
IdArgs == { getAll(storage)[i].id : i \in 1..Len(getAll(storage)) } \cup {UnknownId}

\* ChatController.handleEditMessage up to its await (or to its end)
handleEditMessage(messageId, newText) ==
  LET u == update(storage, messageId, newText, nextId)
      allMessages == getAll(u.st)
      editedIndex == findIndex(allMessages, messageId)
      messagesToDelete == SubSeq(allMessages, editedIndex + 1, Len(allMessages))
      d == deleteEach(u.st, messagesToDelete)
      \* the promise is already rejected: the inner catch block
      e == afterAwait("edit", RejectedAtOnce, d.st, nextId)
      snap == [id |-> messageId,
               before |-> SubSeq(getAll(storage), 1, editedIndex - 1),
               text |-> newText,
               alone |-> pending = <<>>]
  IN  /\ nextId + Reserved <= MaxIds
      /\ Len(pending) < MaxPending
      /\ UNCHANGED << lsGemini, lsOpenai, currentService, geminiApiKey,
                      openaiApiKey, providerSelect, apiKeyShown, clearMark >>
      /\ IF u.ret # "ok"
           THEN /\ storage' = u.st
                /\ rendered' = notifyObservers(u, rendered)
                /\ last' = Obs("edit", [id |-> messageId, text |-> newText],
                               u.ret, u.notified)
                /\ UNCHANGED << nextId, typing, inputDisabled, pending,
                                editSnap >>
         ELSE IF settlesAtOnce(currentService)
           THEN /\ storage' = e.st
                /\ rendered' = getAll(e.st)
                /\ nextId' = nextId + 1
                /\ typing' = FALSE
                /\ inputDisabled' = FALSE
                /\ pending' = pending
                /\ editSnap' = snap
                /\ last' = Obs("edit", [id |-> messageId, text |-> newText],
                               "rejected",
                               u.notified + d.notified + e.notified)
         ELSE   /\ storage' = d.st
                /\ rendered' = getAll(d.st)
                /\ nextId' = nextId
                /\ typing' = TRUE
                /\ inputDisabled' = TRUE
                /\ pending' = Append(pending, newCall("edit", currentService, newText))
                /\ editSnap' = snap
                /\ last' = Obs("edit", [id |-> messageId, text |-> newText],
                               "awaiting", u.notified + d.notified)

\* timers of equal delay fire in the order they were set
timerIsNext(i) ==
  \A j \in 1..(i - 1) : ~(pending[j].svc = "eliza" /\ pending[j].state = "waiting")

\* the promise of pending call i settles with outcome o and the suspended
\* handler runs to its end
settle(i, o) ==
  LET call == pending[i]
      r == afterAwait(call.op, o, storage, nextId)
  IN  /\ call.state = "waiting"
      /\ call.svc = "eliza" => ("returns" \in EngineResults /\ timerIsNext(i))
      /\ o \in outcomes(call)
      /\ storage' = r.st
      /\ rendered' = notifyObservers(r, rendered)
      /\ nextId' = nextId + 1
      /\ typing' = FALSE
      /\ inputDisabled' = FALSE
      /\ pending' = Remove(pending, i)
      /\ last' = Obs(IF call.op = "send" THEN "settleSend" ELSE "settleEdit",
                     o.v, o.t, r.notified)
      /\ UNCHANGED << lsGemini, lsOpenai, currentService, geminiApiKey,
                      openaiApiKey, providerSelect, apiKeyShown, clearMark,
                      editSnap >>

\* the timer of ElizaService.getResponse fires and getBotResponse throws: the
\* exception leaves the timer callback, resolve is never called
elizaEngineThrows(i) ==
  /\ pending[i].state = "waiting"
  /\ pending[i].svc = "eliza"
  /\ "throws" \in EngineResults
  /\ timerIsNext(i)
  /\ pending' = [pending EXCEPT ![i].state = "hung"]
  /\ last' = Obs("engineThrows", 0, "uncaught", 0)
  /\ UNCHANGED << storage, lsGemini, lsOpenai, nextId, rendered, inputDisabled,
                  typing, currentService, geminiApiKey, openaiApiKey,
                  providerSelect, apiKeyShown, clearMark, editSnap >>

\* ChatController.handleDeleteMessage
handleDeleteMessage(messageId) ==
  LET r == delete(storage, messageId)
  IN  /\ storage' = r.st
      /\ rendered' = notifyObservers(r, rendered)
      /\ last' = Obs("delete", messageId, r.ret, r.notified)
      /\ editSnap' = NoEdit
      /\ UNCHANGED << lsGemini, lsOpenai, nextId, inputDisabled, typing,
                      currentService, geminiApiKey, openaiApiKey,
                      providerSelect, apiKeyShown, pending, clearMark >>

\* ChatController.handleClearAll
handleClearAll ==
  LET r == clear(storage)
  IN  /\ storage' = r.st
      /\ rendered' = notifyObservers(r, rendered)
      /\ last' = Obs("clear", 0, r.ret, r.notified)
      /\ clearMark' = TRUE
      /\ editSnap' = NoEdit
      /\ UNCHANGED << lsGemini, lsOpenai, nextId, inputDisabled, typing,
                      currentService, geminiApiKey, openaiApiKey,
                      providerSelect, apiKeyShown, pending >>

\* ChatController.handleExport: builds the download, changes nothing
handleExport ==
  /\ last' = Obs("export", 0, "ok", 0)
  /\ UNCHANGED << storage, lsGemini, lsOpenai, nextId, rendered, inputDisabled,
                  typing, currentService, geminiApiKey, openaiApiKey,
                  providerSelect, apiKeyShown, pending, clearMark, editSnap >>

\* files a user can pick in the import dialog besides a fresh export
ImportedMsg(id, text, isUser, timestamp) ==
  [id |-> id, text |-> text, isUser |-> isUser, timestamp |-> timestamp,
   edited |-> FALSE, editedAt |-> 0]

GarbageFile ==
  [kind |-> "garbage", messagesIsArray |-> FALSE, exported |-> 0,
   messageCount |-> 0, messages |-> <<>>]

NoMessagesFile ==
  [kind |-> "object", messagesIsArray |-> FALSE, exported |-> 0,
   messageCount |-> 0, messages |-> <<>>]

\* a hand-edited file: a repeated id and an entry without timestamp
EditedFile ==
  [kind |-> "object", messagesIsArray |-> TRUE, exported |-> 0,
   messageCount |-> 3,
   messages |-> << ImportedMsg(71, <<"a">>, TRUE, 7),
                   ImportedMsg(72, <<"c">>, TRUE, 0),
                   ImportedMsg(71, <<"r">>, FALSE, 8) >>]

ImportFiles == { GarbageFile, NoMessagesFile, EditedFile }

\* ChatController.handleImport: confirm(), then ChatModel.importFromJSON
handleImport(jsonString, confirmed) ==
  LET r == importFromJSON(storage, jsonString)
  IN  /\ UNCHANGED << lsGemini, lsOpenai, nextId, inputDisabled, typing,
                      currentService, geminiApiKey, openaiApiKey,
                      providerSelect, apiKeyShown, pending >>
      /\ IF ~confirmed
           THEN /\ last' = Obs("import", 0, "declined", 0)
                /\ UNCHANGED << storage, rendered, clearMark, editSnap >>
           ELSE /\ storage' = r.st
                /\ rendered' = notifyObservers(r, rendered)
                /\ last' = Obs("import", jsonString, r.ret, r.notified)
                /\ clearMark' = (clearMark /\ r.ret # "true")
                /\ editSnap' = NoEdit

\* handleProviderChange that constructs the remote service without looking
\* for a stored key
handleProviderChange_noKeyCheck(provider) ==
  /\ providerSelect' = provider
  /\ last' = Obs("provider", provider, "success", 0)
  /\ apiKeyShown' = FALSE
  /\ currentService' =
       IF provider = "eliza" THEN ElizaService
       ELSE IF provider = "gemini" THEN GeminiService(geminiApiKey)
       ELSE OpenAIService(openaiApiKey)
  /\ UNCHANGED << storage, lsGemini, lsOpenai, nextId, rendered, inputDisabled,
                  typing, geminiApiKey, openaiApiKey, pending, clearMark,
                  editSnap >>

\* handleProviderChange whose Eliza branch leaves the key input as it is
handleProviderChange_keepInput(provider) ==
  /\ providerSelect' = provider
  /\ IF provider = "eliza"
       THEN /\ currentService' = ElizaService
            /\ last' = Obs("provider", provider, "success", 0)
            /\ UNCHANGED apiKeyShown
     ELSE IF provider = "gemini"
       THEN IF geminiApiKey # NoKey
              THEN /\ currentService' = GeminiService(geminiApiKey)
                   /\ apiKeyShown' = FALSE
                   /\ last' = Obs("provider", provider, "success", 0)
              ELSE /\ currentService' = ElizaService
                   /\ apiKeyShown' = TRUE
                   /\ last' = Obs("provider", provider, "warning", 0)
     ELSE IF openaiApiKey # NoKey
              THEN /\ currentService' = OpenAIService(openaiApiKey)
                   /\ apiKeyShown' = FALSE
                   /\ last' = Obs("provider", provider, "success", 0)
              ELSE /\ currentService' = ElizaService
                   /\ apiKeyShown' = TRUE
                   /\ last' = Obs("provider", provider, "warning", 0)
  /\ UNCHANGED << storage, lsGemini, lsOpenai, nextId, rendered, inputDisabled,
                  typing, geminiApiKey, openaiApiKey, pending, clearMark,
                  editSnap >>

\* ChatController.handleProviderChange, called by the dropdown's change event;
\* last.ret is the kind of the status line shown (showProviderStatus):
\* "warning" is the '... API key required' line
handleProviderChange(provider) ==
  /\ providerSelect' = provider
  /\ IF provider = "eliza"
       THEN /\ currentService' = ElizaService
            /\ apiKeyShown' = FALSE
            /\ last' = Obs("provider", provider, "success", 0)
     ELSE IF provider = "gemini"
       THEN IF geminiApiKey # NoKey
              THEN /\ currentService' = GeminiService(geminiApiKey)
                   /\ apiKeyShown' = FALSE
                   /\ last' = Obs("provider", provider, "success", 0)
              ELSE /\ currentService' = ElizaService
                   /\ apiKeyShown' = TRUE
                   /\ last' = Obs("provider", provider, "warning", 0)
     ELSE IF openaiApiKey # NoKey
              THEN /\ currentService' = OpenAIService(openaiApiKey)
                   /\ apiKeyShown' = FALSE
                   /\ last' = Obs("provider", provider, "success", 0)
              ELSE /\ currentService' = ElizaService
                   /\ apiKeyShown' = TRUE
                   /\ last' = Obs("provider", provider, "warning", 0)
  /\ UNCHANGED << storage, lsGemini, lsOpenai, nextId, rendered, inputDisabled,
                  typing, geminiApiKey, openaiApiKey, pending, clearMark,
                  editSnap >>

\* API keys a user may type into the key input: a key is known by its prefix
\* and its length, which is all the format checks look at
KeyInputs ==
  { NoKey,
    [prefix |-> "AIzaSy", len |-> 20], [prefix |-> "AIzaSy", len |-> 21],
    [prefix |-> "AIzaSy", len |-> 39],
    [prefix |-> "sk-", len |-> 40], [prefix |-> "sk-", len |-> 41],
    [prefix |-> "invalid-key", len |-> 11] }

\* GeminiService.isValidApiKey without the length comparison
GeminiService_isValidApiKey_prefixOnly(key) ==
  key # NoKey /\ key.prefix = "AIzaSy"

\* GeminiService.isValidApiKey: key && key.length > 20 && key.startsWith('AIzaSy')
GeminiService_isValidApiKey(key) ==
  key # NoKey /\ key.len > 20 /\ key.prefix = "AIzaSy"

\* OpenAIService.isValidApiKey: key && key.length > 40 && key.startsWith('sk-')
OpenAIService_isValidApiKey(key) ==
  key # NoKey /\ key.len > 40 /\ key.prefix = "sk-"

\* handleApiKeySubmit that keeps the key in the controller only
handleApiKeySubmit_noPersist(apiKey) ==
  /\ UNCHANGED << storage, nextId, rendered, inputDisabled, typing,
                  providerSelect, pending, clearMark, editSnap,
                  lsGemini, lsOpenai >>
  /\ IF providerSelect = "gemini" /\ ~GeminiService_isValidApiKey(apiKey)
       THEN /\ last' = Obs("apiKey", apiKey, "invalid", 0)
            /\ UNCHANGED << currentService, geminiApiKey, openaiApiKey,
                            apiKeyShown >>
     ELSE IF providerSelect = "openai" /\ ~OpenAIService_isValidApiKey(apiKey)
       THEN /\ last' = Obs("apiKey", apiKey, "invalid", 0)
            /\ UNCHANGED << currentService, geminiApiKey, openaiApiKey,
                            apiKeyShown >>
     ELSE /\ last' = Obs("apiKey", apiKey, "success", 0)
          /\ apiKeyShown' = FALSE
          /\ IF providerSelect = "gemini"
               THEN /\ geminiApiKey' = apiKey
                    /\ currentService' = GeminiService(apiKey)
                    /\ UNCHANGED openaiApiKey
             ELSE IF providerSelect = "openai"
               THEN /\ openaiApiKey' = apiKey
                    /\ currentService' = OpenAIService(apiKey)
                    /\ UNCHANGED geminiApiKey
             ELSE UNCHANGED << currentService, geminiApiKey, openaiApiKey >>

\* ChatController.handleApiKeySubmit; last.ret is "invalid" when showError
\* reported the format, "success" when showSuccess was reached
handleApiKeySubmit(apiKey) ==
  /\ UNCHANGED << storage, nextId, rendered, inputDisabled, typing,
                  providerSelect, pending, clearMark, editSnap >>
  /\ IF providerSelect = "gemini" /\ ~GeminiService_isValidApiKey(apiKey)
       THEN /\ last' = Obs("apiKey", apiKey, "invalid", 0)
            /\ UNCHANGED << lsGemini, lsOpenai, currentService, geminiApiKey,
                            openaiApiKey, apiKeyShown >>
     ELSE IF providerSelect = "openai" /\ ~OpenAIService_isValidApiKey(apiKey)
       THEN /\ last' = Obs("apiKey", apiKey, "invalid", 0)
            /\ UNCHANGED << lsGemini, lsOpenai, currentService, geminiApiKey,
                            openaiApiKey, apiKeyShown >>
     ELSE /\ last' = Obs("apiKey", apiKey, "success", 0)
          /\ apiKeyShown' = FALSE
          /\ IF providerSelect = "gemini"
               THEN /\ geminiApiKey' = apiKey
                    /\ lsGemini' = apiKey
                    /\ currentService' = GeminiService(apiKey)
                    /\ UNCHANGED << openaiApiKey, lsOpenai >>
             ELSE IF providerSelect = "openai"
               THEN /\ openaiApiKey' = apiKey
                    /\ lsOpenai' = apiKey
                    /\ currentService' = OpenAIService(apiKey)
                    /\ UNCHANGED << geminiApiKey, lsGemini >>
             ELSE UNCHANGED << lsGemini, lsOpenai, currentService,
                               geminiApiKey, openaiApiKey >>

\* page reload over a store that does not outlive the page
reload_sessionStore ==
  /\ currentService' = ElizaService
  /\ geminiApiKey' = lsGemini
  /\ openaiApiKey' = lsOpenai
  /\ providerSelect' = "eliza"
  /\ apiKeyShown' = FALSE
  /\ inputDisabled' = FALSE
  /\ typing' = FALSE
  /\ pending' = <<>>
  /\ storage' = NoData
  /\ rendered' = <<>>
  /\ last' = Obs("reload", 0, "ok", 0)
  /\ editSnap' = NoEdit
  /\ UNCHANGED << lsGemini, lsOpenai, nextId, clearMark >>

\* page reload: a new ChatController over the same localStorage
\* (constructor, _loadSavedApiKeys, _loadInitialMessages); the suspended
\* handlers of the old page are gone
reload ==
  /\ currentService' = ElizaService
  /\ geminiApiKey' = lsGemini
  /\ openaiApiKey' = lsOpenai
  /\ providerSelect' = "eliza"
  /\ apiKeyShown' = FALSE
  /\ inputDisabled' = FALSE
  /\ typing' = FALSE
  /\ pending' = <<>>
  /\ rendered' = getAll(storage)
  /\ last' = Obs("reload", 0, "ok", 0)
  /\ editSnap' = NoEdit
  /\ UNCHANGED << storage, lsGemini, lsOpenai, nextId, clearMark >>

\* ------------------------------------------------------------- observers
\* callbacks that callers of the ChatModel interface subscribe: one that
\* returns and one that throws (nothing else of a callback is modelled)
Callbacks == { "onChange", "faulty" }
Throws(callback) == callback = "faulty"

\* Array.prototype.indexOf, 0 when the callback is not in the list
indexOf(obs, callback) ==
  IF \E k \in 1..Len(obs) : obs[k] = callback
    THEN CHOOSE k \in 1..Len(obs) :
           obs[k] = callback /\ \A j \in 1..(k - 1) : obs[j] # callback
    ELSE 0

\* ChatModel.subscribe(callback): pushes the callback, returns a function
subscribe(callback) ==
  /\ Len(unsubs) < MaxSubscribes
  /\ observers' = Append(observers, callback)
  /\ unsubs' = Append(unsubs, [callback |-> callback, ran |-> FALSE])
  /\ olast' = [op |-> "subscribe", ret |-> "ok", calls |-> << >>]
  /\ UNCHANGED << modelCalls, vars, evars, rvars >>

\* the function the k-th subscribe call returned is called: it removes the
\* first entry of the list that is its callback
unsubscribe(k) ==
  LET index == indexOf(observers, unsubs[k].callback)
  IN  /\ observers' = IF index > 0 THEN Remove(observers, index) ELSE observers
      /\ unsubs' = [unsubs EXCEPT ![k].ran = TRUE]
      /\ olast' = [op |-> "unsubscribe", ret |-> "ok", calls |-> << >>]
      /\ UNCHANGED << modelCalls, vars, evars, rvars >>

\* the forEach of _notifyObservers without its try/catch: the first callback
\* that throws ends the loop and the exception leaves the operation
forEach_noCatch(obs, messages) ==
  LET first == IF \E k \in 1..Len(obs) : Throws(obs[k])
                 THEN CHOOSE k \in 1..Len(obs) :
                        Throws(obs[k]) /\ \A j \in 1..(k - 1) : ~Throws(obs[j])
                 ELSE Len(obs)
  IN  [calls |-> [ k \in 1..first |->
                     [callback |-> obs[k], messages |-> messages,
                      threw |-> Throws(obs[k])] ],
       threw |-> \E k \in 1..Len(obs) : Throws(obs[k])]

\* the forEach of ChatModel._notifyObservers: every callback of the list is
\* called with the history read once before the loop; what a callback
\* throws is caught and logged
forEach(obs, messages) ==
  [calls |-> [ k \in 1..Len(obs) |->
                 [callback |-> obs[k], messages |-> messages,
                  threw |-> Throws(obs[k])] ],
   threw |-> FALSE]

\* ChatModel._notifyObservers after an operation with result r
_notifyObservers(r) ==
  IF r.notified > 0 THEN forEach(observers, getAll(r.st)) ELSE NoCalls

\* a call of the ChatModel interface by any caller, op with result r
modelCall(op, r) ==
  LET n == _notifyObservers(r)
  IN  /\ modelCalls < MaxModelCalls
      /\ modelCalls' = modelCalls + 1
      /\ storage' = r.st
      /\ rendered' = IF \E k \in 1..Len(n.calls) :
                          n.calls[k].callback = RenderMessages
                       THEN getAll(r.st) ELSE rendered
      /\ olast' = [op |-> op,
                   ret |-> IF n.threw THEN "throwObserver" ELSE r.ret,
                   calls |-> n.calls]
      /\ UNCHANGED << observers, unsubs >>
      /\ UNCHANGED << lsGemini, lsOpenai, inputDisabled, typing,
                      currentService, geminiApiKey, openaiApiKey,
                      providerSelect, apiKeyShown, pending, last, clearMark,
                      editSnap >>
      /\ UNCHANGED << evars, rvars >>

modelCreate(text, isUser) ==
  /\ nextId <= MaxIds
  /\ nextId' = nextId + 1
  /\ modelCall("create", create(storage, text, isUser, nextId, nextId))

modelUpdate(id, newText) ==
  /\ nextId' = nextId
  /\ modelCall("update", update(storage, id, newText, nextId))

modelDelete(id) ==
  /\ nextId' = nextId
  /\ modelCall("delete", delete(storage, id))

modelClear ==
  /\ nextId' = nextId
  /\ modelCall("clear", clear(storage))

modelImport(jsonString) ==
  /\ nextId' = nextId
  /\ modelCall("importFromJSON", importFromJSON(storage, jsonString))

\* -------------------------------------------------------- OpenAIService
\* this.maxRetries of OpenAIService
maxRetries == 2
\* history.slice(-10) of _buildMessages and _buildContents
HistoryWindow == 10

\* the content of the system message of _buildMessages
SystemPrompt == << "You are a helpful AI assistant" >>

\* Array.prototype.slice(-n): the last n entries, all when there are fewer
slice(history, n) ==
  IF Len(history) <= n THEN history
  ELSE SubSeq(history, Len(history) - n + 1, Len(history))

\* OpenAIService._buildMessages(message, history)
_buildMessages(message, history) ==
  LET recentHistory == slice(history, HistoryWindow)
  IN  << [role |-> "system", content |-> SystemPrompt] >>
        \o [ k \in 1..Len(recentHistory) |->
               [role |-> IF recentHistory[k].isUser THEN "user" ELSE "assistant",
                content |-> recentHistory[k].text] ]
        \o << [role |-> "user", content |-> message] >>

\* error messages are sequences of words;
\* String.prototype.includes('fetch') looks for the word
includes(message, word) == \E k \in 1..Len(message) : message[k] = word

\* what fetch rejects with when the network fails: Chrome's and Firefox's
\* TypeError messages hold the word fetch, Safari's "Load failed" does not
NetworkErrors == { << "Failed", "to", "fetch" >>, << "Load", "failed" >> }

\* the JSON bodies of a response with an OK status
OkBodies ==
  { [kind |-> "content", content |-> c] : c \in OpenAIContents }
    \cup { [kind |-> "noChoices"], [kind |-> "notJson"] }

\* error.message in the JSON body of a response with a non-OK status
ApiErrorMessages ==
  { << "model", "not", "found" >>, << "could", "not", "fetch", "the", "model" >> }

\* the bodies of a response with a non-OK status
ErrorBodies ==
  { [kind |-> "error", message |-> m] : m \in ApiErrorMessages }
    \cup { [kind |-> "noMessage"], [kind |-> "notJson"] }

\* the non-OK status codes: those _makeRequest names and one it does not
Statuses == { 401, 429, 400, 500, 503, 404 }

\* what a call of fetch can settle with
FetchOutcomes ==
  { [kind |-> "reject", ok |-> FALSE, status |-> 0, body |-> [kind |-> "none"],
     message |-> m] : m \in NetworkErrors }
    \cup { [kind |-> "response", ok |-> TRUE, status |-> 200, body |-> b,
            message |-> << >>] : b \in OkBodies }
    \cup { [kind |-> "response", ok |-> FALSE, status |-> s, body |-> b,
            message |-> << >>] : s \in Statuses, b \in ErrorBodies }

\* the message of the Error that _makeRequest throws inside its try block
\* for a response with a non-OK status
apiError(status, body) ==
  IF status = 401 THEN << "Invalid", "API", "key" >>
  ELSE IF status = 429 THEN << "Rate", "limit", "exceeded" >>
  ELSE IF status = 400 THEN << "Invalid", "request" >>
  ELSE IF status = 500 \/ status = 503
    THEN << "OpenAI", "servers", "are", "experiencing", "issues" >>
  ELSE << "API", "error" >>
         \o (IF body.kind = "error" THEN body.message
             ELSE << "Unknown", "error" >>)

\* what the try block of _makeRequest does with a settled fetch: it returns
\* the parsed body, or throws
tryBlock(o) ==
  IF o.kind = "reject" THEN [t |-> "throw", message |-> o.message]
  ELSE IF ~o.ok THEN [t |-> "throw", message |-> apiError(o.status, o.body)]
  ELSE IF o.body.kind = "notJson"
    THEN [t |-> "throw", message |-> << "Unexpected", "token" >>]
  ELSE [t |-> "return", message |-> << >>]

\* the retry condition with <= for <
mayRetry_offByOne(count, message) ==
  count <= maxRetries /\ includes(message, "fetch")

\* the retry condition without the look at the message
mayRetry_anyError(count, message) == count < maxRetries

\* the condition of the catch block of _makeRequest
mayRetry(count, message) ==
  count < maxRetries /\ includes(message, "fetch")

\* OpenAIService.getResponse(message, history) up to the first await of
\* _makeRequest: the request is built and fetch is invoked
OpenAIService_getResponse(message, history, earlier) ==
  /\ request' = _buildMessages(message, history)
  /\ sent' = [message |-> message, history |-> history, earlier |-> earlier]
  /\ retryCount' = 0
  /\ fetches' = 1
  /\ phase' = "fetching"
  /\ fetched' = NoFetch

\* handleSendMessage with an OpenAIService as current service
sendToOpenAI(text) ==
  /\ currentService.kind = "openai"
  /\ phase = "idle"
  /\ pending = << >>
  /\ handleSendMessage(text)
  /\ IF pending' # pending
       THEN OpenAIService_getResponse(text, getAll(storage'), getAll(storage))
       ELSE UNCHANGED rvars
  /\ UNCHANGED << evars, ovars >>

\* the fetch of the running _makeRequest settles with o
fetchSettles(o) ==
  LET r == tryBlock(o)
  IN  /\ phase = "fetching"
      /\ fetched' = o
      /\ phase' = IF r.t = "return" THEN "returned"
                  ELSE IF mayRetry(retryCount, r.message) THEN "backoff"
                  ELSE "thrown"
      /\ UNCHANGED << request, sent, retryCount, fetches >>
      /\ UNCHANGED << vars, evars, ovars >>

\* the timer of the catch block fires: _makeRequest(messages, retryCount + 1)
\* invokes fetch again
backoffElapsed ==
  /\ phase = "backoff"
  /\ retryCount' = retryCount + 1
  /\ fetches' = fetches + 1
  /\ phase' = "fetching"
  /\ UNCHANGED << request, sent, fetched >>
  /\ UNCHANGED << vars, evars, ovars >>

\* OpenAIService._extractText and the catch block of getResponse: what the
\* promise of getResponse settles with
getResponseResult ==
  IF phase = "returned" /\ fetched.body.kind = "content"
       /\ fetched.body.content # << >>
    THEN [t |-> "resolve", v |-> Trim(fetched.body.content)]
    ELSE [t |-> "reject", v |-> << >>]

\* _makeRequest has returned or thrown: the awaiting handler resumes
responseArrives ==
  /\ phase \in { "returned", "thrown" }
  /\ settle(1, getResponseResult)
  /\ phase' = "idle"
  /\ UNCHANGED << request, sent, retryCount, fetches, fetched >>
  /\ UNCHANGED << evars, ovars >>

\* ------------------------------------------------------------------ Next
\* the chat handlers do not touch the engine: in this specification a turn
\* of the engine is seen through ElizaOutcomes only
Submit ==
  UNCHANGED << evars, ovars, rvars >> /\
    \E raw \in RawTexts : submit(raw)
SendMessage ==
  UNCHANGED << evars, ovars, rvars >> /\
    \E text \in RawTexts : handleSendMessage(text)
EditMessage ==
  UNCHANGED << evars, ovars, rvars >> /\
    \E id \in IdArgs, newText \in EditTexts : handleEditMessage(id, newText)
Settle ==
  UNCHANGED << evars, ovars, rvars >> /\
    \E i \in 1..Len(pending) : \E o \in outcomes(pending[i]) : settle(i, o)
EngineThrows ==
  UNCHANGED << evars, ovars, rvars >> /\
    \E i \in 1..Len(pending) : elizaEngineThrows(i)
DeleteMessage ==
  UNCHANGED << evars, ovars, rvars >> /\
    \E id \in IdArgs : handleDeleteMessage(id)
ClearAll ==
  UNCHANGED << evars, ovars, rvars >> /\
    handleClearAll
Export ==
  UNCHANGED << evars, ovars, rvars >> /\
    handleExport
Import ==
  UNCHANGED << evars, ovars, rvars >> /\
    \E doc \in ImportFiles \cup {exportToJSON(storage, nextId)}, confirmed \in BOOLEAN :
      handleImport(doc, confirmed)
ProviderChange ==
  UNCHANGED << evars, ovars, rvars >> /\
    \E p \in {"eliza", "gemini", "openai"} : handleProviderChange(p)
Reload ==
  UNCHANGED << evars, ovars, rvars >> /\
    reload

Next ==
  \/ Submit
  \/ SendMessage
  \/ EditMessage
  \/ Settle
  \/ EngineThrows
  \/ DeleteMessage
  \/ ClearAll
  \/ Export
  \/ Import
  \/ ProviderChange
  \/ Reload

Spec == Init /\ [][Next]_vars

\* ---------------------------------------------- provider configuration
\* the page is loaded for the first time: localStorage holds no API key
\* (the state the provider tests start from, after localStorage.clear())
InitKeys ==
  /\ storage = NoData
  /\ lsGemini = NoKey
  /\ lsOpenai = NoKey
  /\ nextId = 1
  /\ rendered = <<>>
  /\ inputDisabled = FALSE
  /\ typing = FALSE
  /\ currentService = ElizaService
  /\ geminiApiKey = lsGemini
  /\ openaiApiKey = lsOpenai
  /\ providerSelect = "eliza"
  /\ apiKeyShown = FALSE
  /\ pending = <<>>
  /\ last = Obs("init", 0, "ok", 0)
  /\ clearMark = FALSE
  /\ editSnap = NoEdit
  /\ InitEngine(DefaultFallbacks)
  /\ InitObservers
  /\ InitRequest

ApiKeySubmit ==
  UNCHANGED << evars, ovars, rvars >> /\ \E apiKey \in KeyInputs : handleApiKeySubmit(apiKey)

\* the operations that read or write the provider, the keys and the active
\* service; the chat handlers leave all of these unchanged
NextKeys ==
  \/ ProviderChange
  \/ ApiKeySubmit
  \/ Reload

SpecKeys == InitKeys /\ [][NextKeys]_vars

\* ------------------------------------------------------ engine at work
\* the 300 ms timer of ElizaService.getResponse fires for a message: the
\* engine answers from the session its module holds; own is the session
\* the serving ElizaService would have got from createSession
elizaTurn(message) ==
  LET r == getBotResponse(message)
      o == respond(message, own, fallbacks)
  IN  /\ turns < MaxTurns
      /\ r.kind # "ConfigurationError"
      /\ turns' = turns + 1
      /\ engine' = r.session
      /\ own' = o.session
      /\ uses' = IF r.kind = "match"
                   THEN [ uses EXCEPT ![<< r.rule, r.pattern >>] = @ + 1 ]
                   ELSE uses
      /\ fbUses' = IF r.kind = "fallback" THEN fbUses + 1 ELSE fbUses
      /\ prevFallback' = IF r.kind = "fallback" THEN r.response ELSE prevFallback
      /\ elast' = [ op |-> "turn", kind |-> r.kind, input |-> message,
                    selected |-> r.selected, rule |-> r.rule,
                    pattern |-> r.pattern, template |-> r.template,
                    response |-> r.response, expected |-> o.response ]
      /\ UNCHANGED << fallbacks, instance >>
      /\ UNCHANGED << vars, ovars, rvars >>

\* handleProviderChange('eliza'): this.currentService = new ElizaService();
\* the constructor creates no session and the engine module keeps its own
newElizaService ==
  /\ instance < MaxServices
  /\ instance' = instance + 1
  /\ own' = createSession
  /\ elast' = NoTurn("newService")
  /\ UNCHANGED << fallbacks, engine, turns, uses, fbUses, prevFallback >>
  /\ UNCHANGED << vars, ovars, rvars >>

\* page reload: the engine module is loaded again, with a fresh session
elizaReload ==
  /\ reload
  /\ engine' = createSession
  /\ own' = createSession
  /\ instance' = 1
  /\ uses' = [ pr \in Pairs |-> 0 ]
  /\ fbUses' = 0
  /\ prevFallback' = << >>
  /\ elast' = NoTurn("reload")
  /\ UNCHANGED << fallbacks, turns >>
  /\ UNCHANGED << ovars, rvars >>

\* the page is loaded with a script
InitEliza ==
  /\ storage = NoData
  /\ lsGemini \in SavedGeminiKeys
  /\ lsOpenai \in SavedOpenAIKeys
  /\ nextId = 1
  /\ rendered = <<>>
  /\ inputDisabled = FALSE
  /\ typing = FALSE
  /\ currentService = ElizaService
  /\ geminiApiKey = lsGemini
  /\ openaiApiKey = lsOpenai
  /\ providerSelect = "eliza"
  /\ apiKeyShown = FALSE
  /\ pending = <<>>
  /\ last = Obs("init", 0, "ok", 0)
  /\ clearMark = FALSE
  /\ editSnap = NoEdit
  /\ \E fb \in FallbackLists : InitEngine(fb)
  /\ InitObservers
  /\ InitRequest

ElizaTurn == \E message \in Utterances : elizaTurn(message)

\* one page, one ElizaService: the engine serves turn after turn
NextEliza ==
  \/ ElizaTurn
  \/ elizaReload

SpecEliza == InitEliza /\ [][NextEliza]_<< vars, evars >>

\* the provider dropdown constructs further ElizaService objects
NextServices ==
  \/ ElizaTurn
  \/ newElizaService
  \/ elizaReload

SpecServices == Init /\ [][NextServices]_<< vars, evars >>

\* the ChatModel interface under callers that subscribe and unsubscribe
Subscribe == \E callback \in Callbacks : subscribe(callback)
Unsubscribe == \E k \in 1..Len(unsubs) : unsubscribe(k)
ModelCreate ==
  \E text \in RawTexts, isUser \in BOOLEAN : modelCreate(text, isUser)
ModelUpdate == \E id \in IdArgs, newText \in EditTexts : modelUpdate(id, newText)
ModelDelete == \E id \in IdArgs : modelDelete(id)
ModelClear == modelClear
ModelImport == \E jsonString \in ImportFiles : modelImport(jsonString)

NextObservers ==
  \/ Subscribe
  \/ Unsubscribe
  \/ ModelCreate
  \/ ModelUpdate
  \/ ModelDelete
  \/ ModelClear
  \/ ModelImport

SpecObservers == Init /\ [][NextObservers]_<< vars, evars, ovars, rvars >>

\* histories a page can find in localStorage when it is loaded
Letters == << "a", "b", "c", "d", "e", "f", "g", "h", "i", "j", "k", "l" >>
SavedHistory(n) ==
  [ k \in 1..n |-> ImportedMsg(100 + k, << Letters[k] >>, k % 2 = 1, k) ]
SavedHistories == { SavedHistory(n) : n \in { 0, 1, 9, 10, 12 } }

\* the page is loaded with a saved history
InitSaved ==
  /\ \E h \in SavedHistories :
       /\ storage = (IF h = << >> THEN NoData ELSE save(h))
       /\ rendered = h
  /\ lsGemini \in SavedGeminiKeys
  /\ lsOpenai \in SavedOpenAIKeys
  /\ nextId = 1
  /\ inputDisabled = FALSE
  /\ typing = FALSE
  /\ currentService = ElizaService
  /\ geminiApiKey = lsGemini
  /\ openaiApiKey = lsOpenai
  /\ providerSelect = "eliza"
  /\ apiKeyShown = FALSE
  /\ pending = <<>>
  /\ last = Obs("init", 0, "ok", 0)
  /\ clearMark = FALSE
  /\ editSnap = NoEdit
  /\ InitEngine(DefaultFallbacks)
  /\ InitObservers
  /\ InitRequest

SendToOpenAI == \E text \in RawTexts : sendToOpenAI(text)
FetchSettles == \E o \in FetchOutcomes : fetchSettles(o)
BackoffElapsed == backoffElapsed
ResponseArrives == responseArrives

\* one page talking to ChatGPT
NextRequest ==
  \/ ProviderChange
  \/ SendToOpenAI
  \/ FetchSettles
  \/ BackoffElapsed
  \/ ResponseArrives

allvars == << vars, evars, ovars, rvars >>

SpecRequest == InitSaved /\ [][NextRequest]_allvars

\* every fetch settles and every timer fires
SpecRequestFair ==
  SpecRequest /\ WF_allvars(FetchSettles) /\ WF_allvars(BackoffElapsed)

\* =============================================================== claims
History == getAll(storage)
HistoryAfter == getAll(storage')

\* the step appended exactly the messages more to the history
Appended(more) == HistoryAfter = History \o more

\* a message is the bot message with this text
IsBot(m, text) == ~m.isUser /\ m.text = text
\* a message is the user message with this text
IsUser(m, text) == m.isUser /\ m.text = text

\* true of a step that appends to the history: the messages it appended
Tail1 == SubSeq(HistoryAfter, Len(History) + 1, Len(HistoryAfter))

\* C1 as stated: for every handleSendMessage(text) with non-empty text the
\* user message is appended before the service is called, and when the promise
\* settles exactly one bot message is appended, the response text if the
\* promise resolved with a non-empty string and an error message otherwise.
C1_SendStepAsStated ==
  (last'.op = "send" /\ last'.arg # <<>>) =>
     /\ last'.ret \in {"awaiting", "rejected"}
     /\ Len(HistoryAfter) > Len(History)
     /\ SubSeq(HistoryAfter, 1, Len(History)) = History
     /\ Tail1[1].isUser
     /\ last'.ret = "awaiting" =>
          /\ Len(Tail1) = 1
          /\ Len(pending') = Len(pending) + 1
          /\ pending'[Len(pending')].op = "send"
     /\ last'.ret = "rejected" =>
          /\ Len(Tail1) = 2
          /\ IsBot(Tail1[2], SendErrorMsg)

C1_SettleStepAsStated ==
  last'.op = "settleSend" =>
     /\ Len(HistoryAfter) = Len(History) + 1
     /\ SubSeq(HistoryAfter, 1, Len(History)) = History
     /\ IF last'.ret = "resolve" /\ last'.arg # <<>>
          THEN IsBot(Tail1[1], last'.arg)
          ELSE IsBot(Tail1[1], SendErrorMsg)

C1_AsStated == [][C1_SendStepAsStated /\ C1_SettleStepAsStated]_vars

\* C1 amended: for every handleSendMessage(text) whose text is non-empty after
\* trimming, the user message with the trimmed text is appended before the
\* service is called, and when the promise settles exactly one bot message is
\* appended: the trimmed response if the promise resolved with a string that
\* is non-empty after trimming, an error message otherwise.
C1_SendStep ==
  (last'.op = "send" /\ Trim(last'.arg) # <<>>) =>
     /\ last'.ret \in {"awaiting", "rejected"}
     /\ Len(HistoryAfter) > Len(History)
     /\ SubSeq(HistoryAfter, 1, Len(History)) = History
     /\ IsUser(Tail1[1], Trim(last'.arg))
     /\ last'.ret = "awaiting" =>
          /\ Len(Tail1) = 1
          /\ Len(pending') = Len(pending) + 1
          /\ pending'[Len(pending')].op = "send"
     /\ last'.ret = "rejected" =>
          /\ Len(Tail1) = 2
          /\ IsBot(Tail1[2], SendErrorMsg)

C1_SettleStep ==
  last'.op = "settleSend" =>
     /\ Len(HistoryAfter) = Len(History) + 1
     /\ SubSeq(HistoryAfter, 1, Len(History)) = History
     /\ IF last'.ret = "resolve" /\ Trim(last'.arg) # <<>>
          THEN IsBot(Tail1[1], Trim(last'.arg))
          ELSE IsBot(Tail1[1], SendErrorMsg)

C1_OneBotMessagePerTurn == [][C1_SendStep /\ C1_SettleStep]_vars

\* a turn answered by its service: user message, then the response
C1_Witness ==
  /\ last.op = "settleSend"
  /\ last.ret = "resolve"
  /\ Len(History) = 2
  /\ IsUser(History[1], <<"a">>)
  /\ IsBot(History[2], <<"r">>)

\* C2: every turn routed to the Eliza service is answered: the promise of
\* ElizaService.getResponse settles also when getBotResponse throws, so no
\* handler stays suspended at its await once its timer has fired.
C2_ElizaTurnAnswered ==
  \A i \in 1..Len(pending) : pending[i].svc = "eliza" => pending[i].state # "hung"

\* C3: after Clear All is confirmed the history is empty, the empty state is
\* shown, and it stays so until the user submits a new message.
C3_ClearedStaysEmpty == clearMark => (History = <<>> /\ rendered = <<>>)

\* the history that C4 and C5 expect after the edit recorded in editSnap: the
\* edited message last but one, then one bot message
EditedThenOneBot ==
  /\ Len(History) >= 2
  /\ LET m == History[Len(History) - 1]
     IN  /\ m.id = editSnap.id
         /\ IsUser(m, Trim(editSnap.text))
         /\ m.edited
  /\ ~History[Len(History)].isUser

\* the handler of the edit recorded in editSnap has run to its end
EditCompleted ==
  \/ last.op = "settleEdit"
  \/ last.op = "edit" /\ last.ret = "rejected"

\* C4: handleEditMessage(id, newText) on a user message at position i, with no
\* other operation before its service call settles, leaves the first i
\* messages unchanged, then the edited message (trimmed newText, edited, same
\* id), then exactly one new bot message, and nothing else.
C4_EditResult ==
  (EditCompleted /\ editSnap.alone) =>
     /\ EditedThenOneBot
     /\ SubSeq(History, 1, Len(History) - 2) = editSnap.before

\* C5: under every interleaving of handleSendMessage and handleEditMessage,
\* once no service call remains in flight after an edit, the edited message
\* is the last user message and exactly one bot message follows it.
C5_EditedIsLastTurn ==
  (editSnap.id # 0 /\ pending = <<>>) => EditedThenOneBot

\* the messages of the history whose id is not id, in their order
Others(id) == LET keep(m) == m.id # id IN SelectSeq(History, keep)

\* C6: ChatModel.delete(id) removes exactly the messages whose id is id,
\* leaves every other message unchanged and in order, and returns true; when
\* no message has that id it returns false, writes nothing to storage and
\* notifies no observer.
C6_DeleteExactly ==
  [][ last'.op = "delete" =>
        IF \E i \in 1..Len(History) : History[i].id = last'.arg
          THEN /\ last'.ret = "true"
               /\ HistoryAfter = Others(last'.arg)
               /\ last'.notified = 1
               /\ rendered' = HistoryAfter
          ELSE /\ last'.ret = "false"
               /\ storage' = storage
               /\ last'.notified = 0
               /\ rendered' = rendered ]_vars

\* a delete removed a message and at least two others remain
C6_Witness ==
  /\ last.op = "delete"
  /\ last.ret = "true"
  /\ Len(History) >= 2

\* a delete of an id that no message has
C6_WitnessUnknown ==
  /\ last.op = "delete"
  /\ last.ret = "false"
  /\ History # <<>>

\* C7: export followed by import restores the chat: importing the document
\* exportToJSON produced leaves the persisted history as it was before the
\* export, same messages, same order, same fields.
C7_ExportImportRestores ==
  [][ ( /\ last'.op = "import"
        /\ last'.ret # "declined"
        /\ last'.arg = exportToJSON(storage, nextId) )
      => ( last'.ret = "true" /\ HistoryAfter = History ) ]_vars

\* the export of a history with an edited user message and a bot message was
\* imported
C7_Witness ==
  /\ last.op = "import"
  /\ last.ret = "true"
  /\ last.arg.exported # 0
  /\ last.arg.messageCount >= 2
  /\ \E i \in 1..Len(History) : History[i].edited
  /\ \E i \in 1..Len(History) : ~History[i].isUser

\* C8: a failed or declined import changes nothing: text that is not valid
\* JSON or has no messages array makes importFromJSON throw, a declined
\* confirmation does not call the model; in both cases the persisted history
\* is as before and no observer is notified.
C8_FailedImportChangesNothing ==
  [][ last'.op = "import" =>
        /\ ( last'.ret # "declined" /\
             (last'.arg.kind # "object" \/ ~last'.arg.messagesIsArray) )
             => last'.ret \in {"throwParse", "throwFormat"}
        /\ last'.ret \in {"throwParse", "throwFormat", "declined"}
             => ( /\ storage' = storage
                  /\ rendered' = rendered
                  /\ last'.notified = 0 ) ]_vars

\* an import failed while the history held messages
C8_Witness ==
  /\ last.op = "import"
  /\ last.ret \in {"throwParse", "throwFormat"}
  /\ Len(History) >= 2

\* an import was declined while the history held messages
C8_WitnessDeclined ==
  /\ last.op = "import"
  /\ last.ret = "declined"
  /\ Len(History) >= 2

\* C9: messages persist across a page reload: the ChatModel constructed by
\* the new page returns from getAll exactly the history the previous page
\* held and showed, and the new page renders it.
C9_ReloadKeepsHistory ==
  [][ last'.op = "reload" =>
        /\ HistoryAfter = History
        /\ HistoryAfter = rendered
        /\ rendered' = HistoryAfter ]_vars

\* a page holding an edited message and a bot message was reloaded
C9_Witness ==
  /\ last.op = "reload"
  /\ Len(History) >= 2
  /\ \E i \in 1..Len(History) : History[i].edited
  /\ \E i \in 1..Len(History) : ~History[i].isUser

\* C10: no submission of empty or whitespace-only text adds a message to the
\* history: the view does not forward it, and handleSendMessage called with
\* such text leaves the history unchanged.
C10_BlankAddsNothing ==
  [][ ( \/ last'.op = "submit"
        \/ last'.op = "send" /\ IsBlank(last'.arg) )
      => HistoryAfter = History ]_vars

\* ----------------------------------------- provider and API key claims
\* the key the controller holds for a remote provider
KeyOf(provider) == IF provider = "gemini" THEN geminiApiKey ELSE openaiApiKey
\* the key localStorage holds for a remote provider
StoredKeyOf(provider) == IF provider = "gemini" THEN lsGemini ELSE lsOpenai
\* the service of a remote provider constructed with a key
ServiceOf(provider, key) ==
  IF provider = "gemini" THEN GeminiService(key) ELSE OpenAIService(key)
\* the format the claim states for a provider's key
FormatOk(provider, key) ==
  IF provider = "gemini"
    THEN key.len > 20 /\ key.prefix = "AIzaSy"
    ELSE key.len > 40 /\ key.prefix = "sk-"

Remote == {"gemini", "openai"}

\* C11: selecting Gemini or OpenAI while no API key is stored for it shows
\* the API key input with the 'API key required' warning and keeps the Eliza
\* service active; a remote service is never active without a key for it.
C11_NoRemoteWithoutKey ==
  /\ [](currentService.kind \in Remote =>
          /\ currentService.key # NoKey
          /\ currentService.key = KeyOf(currentService.kind))
  /\ [][ ( /\ last'.op = "provider"
           /\ last'.arg \in Remote
           /\ KeyOf(last'.arg) = NoKey )
         => ( /\ apiKeyShown'
              /\ last'.ret = "warning"
              /\ currentService' = ElizaService ) ]_vars

\* OpenAI was selected with a Gemini key stored but no OpenAI key
C11_Witness ==
  /\ last.op = "provider"
  /\ last.arg = "openai"
  /\ last.ret = "warning"
  /\ geminiApiKey # NoKey
  /\ openaiApiKey = NoKey
  /\ apiKeyShown

\* C12: submitting a key that fails the selected provider's format check
\* reports the format error and changes nothing else: the keys of the
\* controller and of localStorage and the active service stay as they were.
C12_InvalidKeyChangesNothing ==
  [][ ( /\ last'.op = "apiKey"
        /\ providerSelect \in Remote
        /\ ~FormatOk(providerSelect, last'.arg) )
      => ( /\ last'.ret = "invalid"
           /\ UNCHANGED << geminiApiKey, openaiApiKey, lsGemini, lsOpenai,
                           currentService, apiKeyShown, providerSelect >> ) ]_vars

\* a Gemini key of exactly 20 characters was refused while another key was
\* stored and active
C12_Witness ==
  /\ last.op = "apiKey"
  /\ last.ret = "invalid"
  /\ last.arg = [prefix |-> "AIzaSy", len |-> 20]
  /\ providerSelect = "gemini"
  /\ currentService.kind = "gemini"

C14_ElizaAlwaysSelectable ==
  [][ ( last'.op = "provider" /\ last'.arg = "eliza" )
      => ( currentService' = ElizaService /\ ~apiKeyShown' ) ]_vars

\* Eliza was selected on a page that holds a Gemini key and no OpenAI key
C14_Witness ==
  /\ last.op = "provider"
  /\ last.arg = "eliza"
  /\ geminiApiKey # NoKey
  /\ openaiApiKey = NoKey

\* ------------------------------------------------------- engine claims
\* the step is a turn served by the engine
IsTurn == turns' = turns + 1

\* the templates of a (rule, pattern) pair
Templates(pr) == Rules[pr[1]].decompositions[pr[2]].reassemblies

\* C15: within one session the k-th use (k = 0, 1, 2, ...) of a (keyword,
\* pattern) pair selects template k mod M of the pattern's M templates,
\* whatever other pairs were used in between.
C15_ReassemblyRotation ==
  [][ ( IsTurn /\ elast'.kind = "match" ) =>
        LET pr == << elast'.rule, elast'.pattern >>
            k == uses[pr]
        IN  /\ elast'.template = k % Len(Templates(pr))
            /\ pr = << 1, 1 >> =>
                 elast'.response = Templates(pr)[(k % 3) + 1]
            /\ uses'[pr] = k + 1 ]_evars

\* the fifth use of the three-template pattern of "sad": after templates
\* 0, 1, 2, 0 it selected template 1
C15_Witness ==
  /\ elast.kind = "match"
  /\ elast.rule = 1 /\ elast.pattern = 1
  /\ uses[<< 1, 1 >>] = 5
  /\ elast.template = 1
  /\ elast.response = << "why", "sad" >>

\* C16: on every no-match turn with a non-empty memory queue the oldest
\* queued statement is returned and removed, a fallback is returned only
\* when the queue is empty, and a memory-flagged match queues its statement,
\* so that a later no-match turn returns it instead of a fallback.
C16_MemoryRoundTrip ==
  [][ IsTurn =>
        /\ elast'.kind \in {"memory", "fallback"} =>
             IF engine.memoryQueue # << >>
               THEN /\ elast'.kind = "memory"
                    /\ elast'.response = Head(engine.memoryQueue)
                    /\ engine'.memoryQueue = Tail(engine.memoryQueue)
               ELSE /\ elast'.kind = "fallback"
                    /\ engine'.memoryQueue = << >>
        /\ elast'.kind = "match" =>
             IF Rules[elast'.rule].decompositions[elast'.pattern].memoryFlag
               THEN /\ engine'.memoryQueue # << >>
                    /\ Len(engine'.memoryQueue) <= MemoryCap
                    /\ \/ SubSeq(engine'.memoryQueue, 1, Len(engine'.memoryQueue) - 1)
                            = engine.memoryQueue
                       \/ /\ Len(engine.memoryQueue) = MemoryCap
                          /\ SubSeq(engine'.memoryQueue, 1, MemoryCap - 1)
                               = Tail(engine.memoryQueue)
               ELSE engine'.memoryQueue = engine.memoryQueue ]_evars

\* two statements were queued; the no-match turn returned the older one and
\* left the newer one in the queue
C16_Witness ==
  /\ elast.kind = "memory"
  /\ elast.response = << "earlier", "your", "dog" >>
  /\ engine.memoryQueue = << << "earlier", "your", "sad", "dream" >> >>

\* the step is a fallback turn: unmatched, with the memory queue empty
IsFallbackTurn == IsTurn /\ elast'.kind = "fallback"

\* number of distinct entries of the fallback list
DistinctFallbacks == Cardinality({ fallbacks[i] : i \in 1..Len(fallbacks) })

\* no entry of the fallback list equals its successor in the rotation
NoAdjacentRepeat ==
  \A i \in 1..Len(fallbacks) : fallbacks[i] # fallbacks[(i % Len(fallbacks)) + 1]

\* C17 as stated: the k-th fallback turn of a session returns
\* fallbacks[k mod length], and no two consecutive fallback turns return the
\* same fallback whenever the list has at least 2 distinct entries.
C17_AsStated ==
  [][ IsFallbackTurn =>
        /\ elast'.response = fallbacks[(fbUses % Len(fallbacks)) + 1]
        /\ ( DistinctFallbacks >= 2 /\ fbUses > 0 )
             => elast'.response # prevFallback ]_evars

\* C17: the k-th fallback turn of a session returns fallbacks[k mod length],
\* and no two consecutive fallback turns return the same fallback whenever
\* no entry of the list equals the entry that follows it in the rotation.
C17_FallbackRotation ==
  [][ IsFallbackTurn =>
        /\ elast'.response = fallbacks[(fbUses % Len(fallbacks)) + 1]
        /\ ( NoAdjacentRepeat /\ fbUses > 0 )
             => elast'.response # prevFallback ]_evars

\* the fourth fallback turn over a list of two entries: the rotation has
\* wrapped and returns the second entry again
C17_Witness ==
  /\ elast.kind = "fallback"
  /\ Len(fallbacks) = 2
  /\ fbUses = 4
  /\ elast.response = fallbacks[2]

\* positions of the normalized input that hold a keyword of a rule
Candidates(tokens) == { i \in 1..Len(tokens) : RuleIndex(tokens[i]) # 0 }

\* C18: for an input with keywords of two or more rules the rule of highest
\* rank is selected whatever the order of the keywords, and among keywords
\* of equal highest rank the one that occurs first in the input.
C18_KeywordSelection ==
  [][ IsTurn =>
        LET tokens == Normalize(elast'.input)
            c == Candidates(tokens)
            top == { i \in c : \A j \in c :
                       Rules[RuleIndex(tokens[j])].rank
                         <= Rules[RuleIndex(tokens[i])].rank }
        IN  IF c = {} THEN elast'.selected = 0
            ELSE \E i \in top :
                   /\ \A j \in top : i <= j
                   /\ elast'.selected = RuleIndex(tokens[i]) ]_evars

\* "my sad dream": "my" and "dream" have the highest rank, "my" comes first
C18_Witness ==
  /\ elast.op = "turn"
  /\ elast.input = << "my", "sad", "dream" >>
  /\ elast.selected = 2

\* C19: the responses and the state of one session are the same whatever
\* turns other sessions had: every ElizaService is answered as from the
\* session createSession gave it.
C19_SessionIsolation ==
  elast.op = "turn" => ( elast.response = elast.expected /\ engine = own )

\* the getResponse calls the controller issued that have not settled
InFlight == { i \in 1..Len(pending) : pending[i].state \in { "waiting", "hung" } }

\* C21: the message input is disabled exactly while an AI request is in
\* flight: disabled if at least one getResponse call of the controller has
\* not settled, enabled when none is pending.
C21_DisabledWhileInFlight == inputDisabled <=> InFlight # {}

\* the update of a handleEditMessage step was refused
EditRefused == { "throwEmpty", "null", "throwBot" }

\* C24: only user messages can be edited. update with empty or blank text
\* throws, update with an id no message has returns null, update on a bot
\* message throws; in all three cases the persisted history and what the
\* observer rendered are unchanged and no observer is notified. Whatever
\* the outcome, every message that is not the one update was called for and
\* stands at or before it in the history, and so every bot message the
\* handler does not delete, keeps its text.
C24_OnlyUserMessagesEdited ==
  [][ last'.op = "edit" =>
        LET id == last'.arg.id
            newText == last'.arg.text
            i == findIndex(History, id)
        IN  /\ IsBlank(newText) => last'.ret = "throwEmpty"
            /\ (~IsBlank(newText) /\ i = 0) => last'.ret = "null"
            /\ (~IsBlank(newText) /\ i # 0 /\ ~History[i].isUser)
                 => last'.ret = "throwBot"
            /\ last'.ret \in EditRefused =>
                 /\ storage' = storage
                 /\ rendered' = rendered
                 /\ last'.notified = 0
            /\ \A j \in 1..Len(History) :
                 (~History[j].isUser /\ j <= Len(HistoryAfter)
                    /\ HistoryAfter[j].id = History[j].id)
                   => HistoryAfter[j].text = History[j].text ]_vars

\* an edit of a bot message was refused
C24_Witness ==
  /\ last.op = "edit"
  /\ last.ret = "throwBot"
  /\ \E i \in 1..Len(History) : ~History[i].isUser /\ History[i].id = last.arg.id

\* an edit with blank text was refused
C24_WitnessEmpty == last.op = "edit" /\ last.ret = "throwEmpty"

\* an edit of an id no message has was refused
C24_WitnessUnknown == last.op = "edit" /\ last.ret = "null"

\* C25: message ids are unique: no two messages of the persisted history
\* have the same id in any state reachable through create, update, delete,
\* clear and importFromJSON.
C25_UniqueIds ==
  \A i, j \in 1..Len(History) : History[i].id = History[j].id => i = j

\* C25, the consequence the claim draws: delete(id) and the per-message
\* deletions of handleEditMessage each remove at most one message.
C25_DeleteAtMostOne ==
  [][ last'.op = "delete" => Len(HistoryAfter) >= Len(History) - 1 ]_vars

\* the operations of the ChatModel interface that change the history
ModelOps == { "create", "update", "delete", "clear", "importFromJSON" }

\* what a successful operation returns (update and create: the message)
Succeeded == { "ok", "true" }

\* the callbacks a step has called, in the order of the calls
Called(calls) == [ k \in 1..Len(calls) |-> calls[k].callback ]

RECURSIVE StillSubscribed(_)
\* the callbacks of the subscribe calls whose unsubscribe function has not
\* run, in subscription order
StillSubscribed(u) ==
  IF u = << >> THEN << >>
  ELSE IF u[1].ran THEN StillSubscribed(Tail(u))
  ELSE << u[1].callback >> \o StillSubscribed(Tail(u))

\* the controller's callback and the callbacks still subscribed
Subscribed == << RenderMessages >> \o StillSubscribed(unsubs)

\* C22: every successful create, update, delete, clear and importFromJSON
\* calls each currently subscribed observer exactly once, after the change
\* is saved, with a history equal to the persisted history; an operation
\* that throws or reports not-found calls no observer; an observer is never
\* called after its unsubscribe function has run.
C22_ObserversNotified ==
  [][ olast'.op \in ModelOps =>
        IF olast'.ret \in Succeeded
          THEN /\ Called(olast'.calls) = Subscribed
               /\ \A k \in 1..Len(olast'.calls) :
                    olast'.calls[k].messages = HistoryAfter
          ELSE /\ olast'.calls = << >>
               /\ storage' = storage ]_<< vars, ovars >>

\* C23: an exception thrown by one observer is contained: every callback of
\* the list is still called, in subscription order, with the history that
\* was saved and stays saved, and the operation returns normally.
C23_ObserverExceptionContained ==
  [][ ( /\ olast'.op \in ModelOps
        /\ \E k \in 1..Len(olast'.calls) : olast'.calls[k].threw )
        => /\ Called(olast'.calls) = observers
           /\ olast'.ret \in Succeeded
           /\ \A k \in 1..Len(olast'.calls) :
                olast'.calls[k].messages = HistoryAfter
           /\ storage'.kind = "array" ]_<< vars, ovars >>

\* a create called a throwing callback and then one subscribed after it
C23_Witness ==
  /\ olast.op = "create"
  /\ olast.ret = "ok"
  /\ \E j, k \in 1..Len(olast.calls) :
       /\ j < k
       /\ olast.calls[j].threw
       /\ ~olast.calls[k].threw
  /\ History # << >>

\* _makeRequest has ended: it returned a response or threw
MakeRequestEnded == phase \in { "returned", "thrown" }

\* C26: _makeRequest is bounded: for one getResponse call fetch is invoked
\* at most maxRetries + 1 = 3 times, retryCount never exceeds maxRetries,
\* and the call ends (returns a response or throws) whenever every fetch
\* settles.
C26_MakeRequestBounded ==
  /\ [](fetches <= maxRetries + 1 /\ retryCount <= maxRetries)
  /\ (phase = "fetching" ~> MakeRequestEnded)

\* three fetches failed with a network error and the call threw
C26_Witness ==
  /\ fetches = maxRetries + 1
  /\ retryCount = maxRetries
  /\ phase = "thrown"
  /\ fetched.kind = "reject"

\* C27: only network failures are retried, never API errors: when fetch
\* returns a response with a non-OK status (401, 429, 400, 500, 503 or any
\* other), _makeRequest throws after that single attempt and issues no
\* other request.
C27_ApiErrorsNotRetried ==
  [][ ( /\ phase = "fetching"
        /\ phase' # "fetching"
        /\ fetched'.kind = "response"
        /\ ~fetched'.ok )
        => phase' = "thrown" ]_rvars

\* C28: in the request built for a turn of handleSendMessage the current
\* user message occurs exactly once: the list sent is the system message,
\* then at most the 10 most recent earlier history messages in order, then
\* the current user message as the last entry and nowhere else.
C28_CurrentMessageOnce ==
  phase # "idle" =>
    LET earlier == slice(sent.earlier, HistoryWindow)
    IN  /\ Len(request) = 1 + Len(earlier) + 1
        /\ request[1].role = "system"
        /\ \A k \in 1..Len(earlier) :
             /\ request[k + 1].content = earlier[k].text
             /\ request[k + 1].role =
                  (IF earlier[k].isUser THEN "user" ELSE "assistant")
        /\ request[Len(request)] = [role |-> "user", content |-> sent.message]

====
